---------------------------- MODULE Spec2Model ----------------------------
(***************************************************************************)
(* Post-hoc calibration utilities of sri_maper (posthoc_utils.py):         *)
(*   BinaryTemperatureScaling (temperature_scale, calibrate),              *)
(*   _ECELoss (forward) and ThresholdMoving (search_threshold, to_labels). *)
(*                                                                         *)
(* Real numbers are fixed-point integers: the integer v stands for the     *)
(* real v / ONE.  The tensors of the program are float32; the model keeps  *)
(* six decimal digits, so values agree with the program's to about 1e-5.   *)
(***************************************************************************)
EXTENDS Integers, Sequences, FiniteSets, TLC

\* The fixed-point unit: the integer that stands for 1.0.
ONE == 1000000

\* The square root of ONE, used to split factors so products stay in range.
HALF_SCALE == 1000

Abs(a) == IF a < 0 THEN -a ELSE a

Sign(a) == IF a < 0 THEN -1 ELSE 1

Max2(a, b) == IF a >= b THEN a ELSE b

Min2(a, b) == IF a <= b THEN a ELSE b

\* a * b of two fixed-point values (float multiplication), truncated.
MulMag(a, b) ==
    LET ah == a \div HALF_SCALE
        al == a % HALF_SCALE
        bh == b \div HALF_SCALE
        bl == b % HALF_SCALE
    IN  ah * bh + (ah * bl + al * bh) \div HALF_SCALE
          + (al * bl) \div ONE

MulFix(a, b) == Sign(a) * Sign(b) * MulMag(Abs(a), Abs(b))

RECURSIVE Pow10(_)
Pow10(k) == IF k = 0 THEN 1 ELSE 10 * Pow10(k - 1)

\* Long division: the digits of r / b after the point, k of them.
RECURSIVE FracDigits(_, _, _)
FracDigits(r, b, k) ==
    IF k = 0 THEN 0
    ELSE LET r10 == r * 10
         IN  (r10 \div b) * Pow10(k - 1) + FracDigits(r10 % b, b, k - 1)

\* a / b of two fixed-point values (float division), truncated; b # 0.
DivMag(a, b) == (a \div b) * ONE + FracDigits(a % b, b, 6)

DivFix(a, b) == Sign(a) * Sign(b) * DivMag(Abs(a), Abs(b))

\* exp(-1), the factor of one whole unit of the exponent.
EXP_NEG_ONE == 367879

\* Beyond this exponent exp(-x) is below the resolution 1/ONE.
EXP_CUTOFF == 20

\* exp(-n) for a whole number n >= 0.
RECURSIVE ExpNegInt(_)
ExpNegInt(n) == IF n = 0 THEN ONE ELSE MulFix(ExpNegInt(n - 1), EXP_NEG_ONE)

\* The Taylor series of exp(-f) for 0 <= f < 1, from term number k on.
RECURSIVE ExpSeries(_, _, _)
ExpSeries(f, term, k) ==
    IF term = 0 THEN 0
    ELSE term + ExpSeries(f, -(MulFix(term, f) \div k), k + 1)

\* exp(-x) for x >= 0.
ExpNeg(x) ==
    IF x >= EXP_CUTOFF * ONE THEN 0
    ELSE MulFix(ExpNegInt(x \div ONE), ExpSeries(x % ONE, ONE, 1))

\* torch.sigmoid
Sigmoid(x) ==
    IF x >= 0 THEN DivFix(ONE, ONE + ExpNeg(x))
    ELSE LET e == ExpNeg(-x) IN DivFix(e, ONE + e)

\* The series 2 * (w + w^3/3 + w^5/5 + ...) of log((1 + w) / (1 - w)).
RECURSIVE AtanhSeries(_, _, _)
AtanhSeries(w2, pw, k) ==
    IF pw = 0 THEN 0
    ELSE (2 * pw) \div k + AtanhSeries(w2, MulFix(pw, w2), k + 2)

\* log(1 + u) for 0 <= u <= 1.
Log1p(u) ==
    LET w == DivFix(u, 2 * ONE + u)
    IN  AtanhSeries(MulFix(w, w), w, 1)

\* The loss of one element of nn.BCEWithLogitsLoss: softplus(x) - x * y.
BCEWithLogits(x, y) == Max2(x, 0) - x * y + Log1p(ExpNeg(Abs(x)))

RECURSIVE SumSeq(_)
SumSeq(q) == IF q = <<>> THEN 0 ELSE Head(q) + SumSeq(Tail(q))

\* The initial temperature of a calibrator.
INIT_TEMPERATURE == 1500000

\* BinaryTemperatureScaling.temperature_scale: logits / self.temperature.
TemperatureScale(xs, T) == [i \in 1..Len(xs) |-> DivFix(xs[i], T)]

\* nn.BCEWithLogitsLoss (reduction = mean) of same-sized logits and labels.
NLL(xs, ys) ==
    SumSeq([i \in 1..Len(xs) |-> BCEWithLogits(xs[i], ys[i])]) \div Len(xs)

\* The closure eval(): the loss at temperature T and, by loss.backward(),
\* its derivative d/dT mean BCE(x/T, y) = mean (sigmoid(x/T) - y) * (-x/T^2).
LossAt(T, xs, ys) == NLL(TemperatureScale(xs, T), ys)

GradAt(T, xs, ys) ==
    SumSeq([i \in 1..Len(xs) |->
              LET q == DivFix(xs[i], T)
              IN  MulFix(Sigmoid(q) - ys[i] * ONE, -DivFix(q, T))])
      \div Len(xs)

\* optim.LBFGS([self.temperature], lr=0.01, max_iter=50)
LR == ONE \div 100

MAX_ITER == 50

\* max_eval defaults to max_iter * 5 // 4.
MaxEval == (MAX_ITER * 5) \div 4

(***************************************************************************)
(* optimizer.step(eval) for the single parameter T, with no line search    *)
(* (torch.optim.LBFGS, line_search_fn = None).  In one dimension the       *)
(* two-loop recursion of L-BFGS reduces to the secant step d = -g * s / y  *)
(* of the latest curvature pair (s, y) with y * s > 1e-10, and to d = -g   *)
(* while there is none.  The tolerances 1e-7 (gradient) and 1e-9 (change)  *)
(* lie below the resolution 1/ONE: a quantity is within tolerance when it  *)
(* is 0 in fixed point.  The optimizer's state st holds the temperature T, *)
(* loss and gradient g at T, the previous gradient pg and loss ploss, the  *)
(* direction d, the step length t, the pair (s, y) (y = 0: none yet), the  *)
(* iteration count n, the closure calls evals, and stop (the loop broke on *)
(* its directional-derivative test).                                       *)
(***************************************************************************)

\* The first closure call of optimizer.step.
OptInit(T0, xs, ys) ==
    [T |-> T0, loss |-> LossAt(T0, xs, ys), g |-> GradAt(T0, xs, ys),
     pg |-> 0, ploss |-> 0, d |-> 0, t |-> 0, s |-> 0, y |-> 0,
     n |-> 0, evals |-> 1, stop |-> FALSE]

\* Whether the loop of optimizer.step has ended.
OptDone(st) ==
    \/ st.stop
    \/ st.g = 0
    \/ st.n >= 1 /\ \/ st.n >= MAX_ITER
                    \/ st.evals >= MaxEval
                    \/ MulFix(st.d, st.t) = 0
                    \/ st.loss = st.ploss

\* One iteration of the loop of optimizer.step.
OptIter(st, xs, ys) ==
    LET n  == st.n + 1
        yk == st.g - st.pg
        sk == MulFix(st.d, st.t)
        fresh == n > 1 /\ yk * sk > 100
        s  == IF fresh THEN sk ELSE st.s
        y  == IF fresh THEN yk ELSE st.y
        d  == IF n = 1 \/ y = 0 THEN -st.g
              ELSE MulFix(-st.g, DivFix(s, y))
        t  == IF n > 1 \/ Abs(st.g) <= ONE THEN LR
              ELSE MulFix(DivFix(ONE, Abs(st.g)), LR)
        T  == st.T + MulFix(t, d)
        reeval == n # MAX_ITER
    IN  IF MulFix(st.g, d) >= 0
        THEN [st EXCEPT !.n = n, !.stop = TRUE]
        ELSE [T |-> T,
              loss |-> IF reeval THEN LossAt(T, xs, ys) ELSE st.loss,
              g |-> IF reeval THEN GradAt(T, xs, ys) ELSE st.g,
              pg |-> st.g, ploss |-> st.loss, d |-> d, t |-> t,
              s |-> s, y |-> y, n |-> n,
              evals |-> st.evals + (IF reeval THEN 1 ELSE 0),
              stop |-> FALSE]

(***************************************************************************)
(* _ECELoss                                                                *)
(***************************************************************************)

\* The default n_bins of _ECELoss, which calibrate uses.
DEFAULT_N_BINS == 15

\* in_bin with the lower boundary included.
InBinClosed(c, b, n) == c * n >= (b - 1) * ONE /\ c * n <= b * ONE

\* in_bin: confidences.gt(bin_lower) * confidences.le(bin_upper) for bin b
\* of n, whose boundaries are torch.linspace(0, 1, n + 1)[b - 1] and [b].
InBin(c, b, n) == c * n > (b - 1) * ONE /\ c * n <= b * ONE

\* torch.sigmoid of every element.
RECURSIVE SigmoidAll(_)
SigmoidAll(xs) ==
    IF xs = <<>> THEN <<>> ELSE <<Sigmoid(Head(xs))>> \o SigmoidAll(Tail(xs))

\* A bin's contribution without the weight prop_in_bin.
BinGapUnweighted(confidences, accuracies, members) ==
    LET N == Len(confidences)
        cnt == Cardinality(members)
        Sum(f) == SumSeq([k \in 1..N |-> IF k \in members THEN f[k] ELSE 0])
    IN  IF cnt > 0
        THEN Abs(Sum(confidences) \div cnt - (Sum(accuracies) * ONE) \div cnt)
        ELSE 0

\* The contribution of one bin to ece, given in_bin of the bin.
BinGap(confidences, accuracies, members) ==
    LET N == Len(confidences)
        cnt == Cardinality(members)
        prop_in_bin == (cnt * ONE) \div Max2(N, 1)
        Sum(f) == SumSeq([k \in 1..N |-> IF k \in members THEN f[k] ELSE 0])
        accuracy_in_bin == (Sum(accuracies) * ONE) \div cnt
        avg_confidence_in_bin == Sum(confidences) \div cnt
    IN  IF prop_in_bin > 0
        THEN MulFix(Abs(avg_confidence_in_bin - accuracy_in_bin), prop_in_bin)
        ELSE 0

\* The loop of _ECELoss.forward over the confidences: in_bin of every bin
\* and the sum ece of the bins' contributions.
ECEOver(confidences, ys, n) ==
    LET N == Len(confidences)
        accuracies == [i \in 1..N |->
                         IF (IF confidences[i] > ONE \div 2 THEN 1 ELSE 0)
                              = ys[i]
                         THEN 1 ELSE 0]
        in_bin == [b \in 1..n |->
                     {i \in 1..N : InBin(confidences[i], b, n)}]
    IN  [confidences |-> confidences, accuracies |-> accuracies,
         in_bin |-> in_bin,
         ece |-> SumSeq([b \in 1..n |->
                           BinGap(confidences, accuracies, in_bin[b])])]

\* _ECELoss.forward, as the record of what it computed: the confidences,
\* the accuracies, in_bin of every bin, and ece.
ECEForward(xs, ys, n) == ECEOver(SigmoidAll(xs), ys, n)

(***************************************************************************)
(* The data source and the collection loop shared by calibrate and         *)
(* search_threshold.                                                       *)
(***************************************************************************)

Labels == {0, 1}

\* The raw logit the model gives for an input: the model is a fixed
\* function of its input, here input * 1.0.
Forward(input) == input * ONE

\* All sequences over S of length lo..hi.
SeqsOf(S, lo, hi) == UNION {[1..k -> S] : k \in lo..hi}

\* All orders in which a shuffled loader may yield the batches 1..n.
Orders(n) == {p \in [1..n -> 1..n] : \A i, j \in 1..n : i # j => p[i] # p[j]}

\* batch_limit rounded up instead of down.
BatchLimitCeil(len, f) == (len * f[1] + f[2] - 1) \div f[2]

\* batch_limit = int(len(val_loader) * val_fraction), val_fraction = f[1]/f[2]
BatchLimit(len, f) == (len * f[1]) \div f[2]

\* The last batches of the loader instead of the first.
ISliceLast(loader, limit) ==
    SubSeq(loader, Len(loader) - Min2(limit, Len(loader)) + 1, Len(loader))

\* islice(val_loader, batch_limit)
ISlice(loader, limit) == SubSeq(loader, 1, Min2(limit, Len(loader)))

RECURSIVE Concat(_)
Concat(qs) == IF qs = <<>> THEN <<>> ELSE Head(qs) \o Concat(Tail(qs))

\* The outputs (or labels) of one batch, each tagged with the batch and the
\* position in the batch it comes from.
Tagged(id, vals) == [i \in 1..Len(vals) |-> [b |-> id, i |-> i, v |-> vals[i]]]

\* torch.cat(logits_list) of the consumed batches: self.model(inputs) of
\* every batch.
CollectLogits(batches) ==
    Concat([k \in 1..Len(batches) |->
              Tagged(batches[k].id,
                     [i \in 1..Len(batches[k].inputs) |->
                        Forward(batches[k].inputs[i])])])

CollectLabels(batches) ==
    Concat([k \in 1..Len(batches) |-> Tagged(batches[k].id, batches[k].labels)])

Values(tagged) == [i \in 1..Len(tagged) |-> tagged[i].v]

\* The batch and position each element comes from.
Origins(tagged) ==
    [i \in 1..Len(tagged) |-> [b |-> tagged[i].b, i |-> tagged[i].i]]

(***************************************************************************)
(* ThresholdMoving                                                         *)
(***************************************************************************)

\* thresholds = np.arange(0, 1, 0.001): GRID_SIZE values, GRID_STEP apart.
GRID_SIZE == 1000

GRID_STEP == ONE \div GRID_SIZE

Thresholds == [k \in 1..GRID_SIZE |-> (k - 1) * GRID_STEP]

\* to_labels with a strict comparison.
ToLabelsStrict(pos_probs, threshold) ==
    [i \in 1..Len(pos_probs) |-> IF pos_probs[i] > threshold THEN 1 ELSE 0]

\* ThresholdMoving.to_labels: (pos_probs >= threshold).astype('int')
ToLabelsOf(pos_probs, threshold) ==
    [i \in 1..Len(pos_probs) |-> IF pos_probs[i] >= threshold THEN 1 ELSE 0]

\* An arg-max that keeps the last index of the largest score.
RECURSIVE ArgMaxInLast(_, _, _)
ArgMaxInLast(scores, lo, hi) ==
    IF lo = hi THEN lo
    ELSE LET mid == (lo + hi) \div 2
             l == ArgMaxInLast(scores, lo, mid)
             r == ArgMaxInLast(scores, mid + 1, hi)
         IN  IF scores[r] >= scores[l] THEN r ELSE l

ArgMaxLast(scores) == ArgMaxInLast(scores, 1, Len(scores))

\* np.argmax: the first index of the largest score.  The scan over
\* lo..hi is split in two halves; the later half wins only with a strictly
\* larger score, so the earliest index of the maximum is kept.
RECURSIVE ArgMaxIn(_, _, _)
ArgMaxIn(scores, lo, hi) ==
    IF lo = hi THEN lo
    ELSE LET mid == (lo + hi) \div 2
             l == ArgMaxIn(scores, lo, mid)
             r == ArgMaxIn(scores, mid + 1, hi)
         IN  IF scores[r] > scores[l] THEN r ELSE l

ArgMax(scores) == ArgMaxIn(scores, 1, Len(scores))

\* scores = [max_metric(labels, self.to_labels(logits, t)) for t in thresholds]
Scores(metric, pos_probs) ==
    [k \in 1..GRID_SIZE |-> metric[ToLabelsOf(pos_probs, Thresholds[k])]]

(***************************************************************************)
(* The state: one BinaryTemperatureScaling instance and one                *)
(* ThresholdMoving instance wrapping the same model, called one operation  *)
(* at a time (the module is single-threaded).                              *)
(***************************************************************************)
VARIABLES
    temperature,   \* self.temperature of the calibrator
    pc,            \* the position of the running call, "idle" between calls
    args,          \* the arguments of the running call
    loader,        \* val_loader of the running call: its batches in order
    batch_limit,   \* batch_limit of the running call
    logits,        \* the concatenated logits (probabilities, in a search)
    labels,        \* the concatenated labels
    logit_src,     \* for each element of logits, the batch and position
                   \* of the input it was computed from
    label_src,     \* for each element of labels, the batch and position
                   \* it was read from
    opt,           \* the state of the LBFGS optimizer of a running fit
    before_nll,    \* before_temperature_nll of the running fit
    before_ece,    \* before_temperature_ece of the running fit
    ret,           \* what the latest call returned or raised
    fitted,        \* the value the latest completed fit returned, if any
    nfits          \* how many calibrate calls were started

vars == <<temperature, pc, args, loader, batch_limit, logits, labels,
          logit_src, label_src, opt, before_nll, before_ece, ret, fitted,
          nfits>>

\* The variables of a running calibrate or search_threshold call.
locals == <<loader, batch_limit, logits, labels, logit_src, label_src, opt,
            before_nll, before_ece>>

None == "none"

NoLocals ==
    /\ loader = <<>>
    /\ batch_limit = 0
    /\ logits = <<>>
    /\ labels = <<>>
    /\ logit_src = <<>>
    /\ label_src = <<>>
    /\ opt = None
    /\ before_nll = 0
    /\ before_ece = 0

\* The call's local variables are gone when it returns or raises.
ClearLocals ==
    /\ args' = None
    /\ loader' = <<>>
    /\ batch_limit' = 0
    /\ logits' = <<>>
    /\ labels' = <<>>
    /\ logit_src' = <<>>
    /\ label_src' = <<>>
    /\ opt' = None
    /\ before_nll' = 0
    /\ before_ece' = 0

\* What a calibrate or search_threshold call was given and collected: the
\* length of the loader, val_fraction, the batches consumed and the sizes
\* of the collected logits and labels.
CallInfo ==
    [len |-> Len(loader), val_fraction |-> args.val_fraction,
     nbatches |-> Len(ISlice(loader, batch_limit)),
     n_logits |-> Len(logits), n_labels |-> Len(labels)]

\* A call that raises at a place: nothing is returned.
Raise(op, at) ==
    /\ ret' = [op |-> op, ok |-> FALSE, at |-> at, info |-> CallInfo]
    /\ pc' = "idle"
    /\ ClearLocals

\* A call that returns r.
Return(r) ==
    /\ ret' = r
    /\ pc' = "idle"
    /\ ClearLocals

\* A new calibrator: line 23.
Fresh ==
    /\ temperature = INIT_TEMPERATURE
    /\ NoLocals
    /\ ret = [op |-> None]
    /\ fitted = <<>>
    /\ nfits = 0

Init == Fresh /\ pc = "idle" /\ args = None

(***************************************************************************)
(* The inputs of the calls.                                                *)
(***************************************************************************)

\* The most batches a data source holds.
MaxBatches == 2

\* The most inputs, and the most labels, one batch holds.
MaxBatchSize == 2

\* The most inputs, and the most labels, a data source holds in all.
MaxExamples == 2

\* The most calibrate calls of one run.
MaxFits == 2

\* The inputs the data sources of a run of calls draw from.
Inputs == {2}

\* The (input_batch, label_batch) pairs a data source may yield.  A batch
\* whose label count differs from its input count is a faulty source's.
Batches(Inp) ==
    {[inputs |-> xs, labels |-> ys] :
        xs \in SeqsOf(Inp, 1, MaxBatchSize),
        ys \in SeqsOf(Labels, 1, MaxBatchSize)}

Total(src, field) == SumSeq([k \in 1..Len(src) |-> Len(src[k][field])])

Sources(Inp) ==
    {src \in SeqsOf(Batches(Inp), 0, MaxBatches) :
        /\ Total(src, "inputs") <= MaxExamples
        /\ Total(src, "labels") <= MaxExamples}

\* The values of val_fraction, each in (0, 1].
Fractions == {<<1, 4>>, <<1, 2>>, <<1, 1>>}

\* datamodule.val_dataloader(shuffle=True): the batches of the source in
\* some order, each remembering which batch of the source it is.
Shuffled(src, order) ==
    [k \in 1..Len(src) |->
        [id |-> order[k], inputs |-> src[order[k]].inputs,
         labels |-> src[order[k]].labels]]

\* model.calibrated_forward: the model's raw logit over the temperature the
\* calibrator fitted.
CalibratedForward(input) == DivFix(Forward(input), temperature)

\* The scores a metric function returns are 0..MaxScore.
MaxScore == 1

BitSeqs(n) == [1..n -> Labels]

\* Every metric function: for the labels of the call, any score for any
\* predicted labels.
AllMetrics(ys, n) == [BitSeqs(n) -> 0..MaxScore]

\* The number of predictions that agree with the labels, over the
\* positions both have.
Agreeing(ys, p) ==
    Cardinality({i \in 1..Min2(Len(ys), Len(p)) : ys[i] = p[i]})

\* Three metric functions: a constant, the agreeing predictions, and the
\* disagreeing ones.
SomeMetrics(ys, n) ==
    {[p \in BitSeqs(n) |-> 0],
     [p \in BitSeqs(n) |-> Agreeing(ys, p)],
     [p \in BitSeqs(n) |-> n - Agreeing(ys, p)]}

\* np.concatenate(logits, axis=None) of the consumed batches:
\* torch.sigmoid(self.model.calibrated_forward(inputs)) of every batch.
CollectProbs(batches) ==
    Concat([k \in 1..Len(batches) |->
              Tagged(batches[k].id,
                     [i \in 1..Len(batches[k].inputs) |->
                        Sigmoid(CalibratedForward(batches[k].inputs[i]))])])

(***************************************************************************)
(* The calls.  Each Call... is the caller passing the arguments; the       *)
(* actions after it are the body of the operation.                         *)
(***************************************************************************)

\* Lines 42-43 and 138-139: the loader and batch_limit.
EnterLoader(src, order, f) ==
    /\ loader' = Shuffled(src, order)
    /\ batch_limit' = BatchLimit(Len(src), f)

\* calibrate(datamodule, val_fraction) is called.
CallFit(SrcSet) ==
    /\ pc' = "fit_collect"
    /\ \E src \in SrcSet : \E order \in Orders(Len(src)) :
         \E f \in Fractions :
           /\ EnterLoader(src, order, f)
           /\ args' = [val_fraction |-> f]

\* search_threshold(max_metric, datamodule, val_fraction) is called.  The
\* metric function is the caller's: one that compares the lengths of its
\* two arguments (strict) raises when they differ.
CallSearch(SrcSet) ==
    /\ pc' = "search_collect"
    /\ \E src \in SrcSet : \E order \in Orders(Len(src)) :
         \E f \in Fractions :
           LET consumed ==
                   ISlice(Shuffled(src, order), BatchLimit(Len(src), f))
               ys == Values(CollectLabels(consumed))
               n  == Total(consumed, "inputs")
           IN  /\ EnterLoader(src, order, f)
               /\ \E metric \in SomeMetrics(ys, n) :
                    \E strict \in IF Len(ys) = n THEN {FALSE} ELSE BOOLEAN :
                      args' = [val_fraction |-> f, max_metric |-> metric,
                               strict |-> strict]

\* temperature_scale(logits) is called.
CallRescale(LogitSet, maxLen) ==
    /\ pc' = "rescale"
    /\ UNCHANGED <<loader, batch_limit>>
    /\ \E xs \in SeqsOf(LogitSet, 1, maxLen) : args' = [logits |-> xs]

\* _ECELoss(n_bins)(logits, labels) is called.
CallCompute(BinSet, LogitSet, lens) ==
    /\ pc' = "compute"
    /\ UNCHANGED <<loader, batch_limit>>
    /\ \E n \in BinSet : \E len \in lens :
         \E xs \in [1..len -> LogitSet] : \E ys \in [1..len -> Labels] :
           args' = [n_bins |-> n, logits |-> xs, labels |-> ys]

\* The probabilities and thresholds of a direct to_labels call.
Probs == {0, 100000, 400000, 500000, 600000, 900000, ONE}

\* to_labels(pos_probs, threshold) is called.
CallToLabels(ProbSet, lens) ==
    /\ pc' = "to_labels"
    /\ UNCHANGED <<loader, batch_limit>>
    /\ \E len \in lens : \E ps \in [1..len -> ProbSet] : \E t \in ProbSet :
         args' = [pos_probs |-> ps, threshold |-> t]

(***************************************************************************)
(* BinaryTemperatureScaling                                                *)
(***************************************************************************)

\* Lines 46-55: the collection loop, then torch.cat, which raises on an
\* empty list.
FitCollect ==
    /\ pc = "fit_collect"
    /\ LET consumed == ISlice(loader, batch_limit)
           lg == CollectLogits(consumed)
           lb == CollectLabels(consumed)
       IN  IF consumed = <<>>
           THEN Raise("fit", "cat")
           ELSE /\ logit_src' = Origins(lg)
                /\ label_src' = Origins(lb)
                /\ logits' = Values(lg)
                /\ labels' = Values(lb)
                /\ pc' = "fit_before"
                /\ UNCHANGED <<args, loader, batch_limit, opt, before_nll,
                               before_ece, ret>>
    /\ UNCHANGED <<temperature, fitted, nfits>>

\* Lines 57-60: the loss before scaling.  nn.BCEWithLogitsLoss raises when
\* input and target differ in size.
FitBefore ==
    /\ pc = "fit_before"
    /\ IF Len(logits) # Len(labels)
       THEN Raise("fit", "nll_criterion")
       ELSE /\ before_nll' = NLL(logits, labels)
            /\ before_ece' = ECEForward(logits, labels, DEFAULT_N_BINS).ece
            /\ pc' = "fit_step"
            /\ UNCHANGED <<args, loader, batch_limit, logits, labels,
                           logit_src, label_src, opt, ret>>
    /\ UNCHANGED <<temperature, fitted, nfits>>

\* Lines 63-70: a new optimizer, and the first closure call of its step.
FitStep ==
    /\ pc = "fit_step"
    /\ opt' = OptInit(temperature, logits, labels)
    /\ pc' = "fit_optimize"
    /\ UNCHANGED <<temperature, args, loader, batch_limit, logits, labels,
                   logit_src, label_src, before_nll, before_ece, ret,
                   fitted, nfits>>

\* Line 70: one iteration of optimizer.step, which updates
\* self.temperature in place.
FitOptIter ==
    /\ pc = "fit_optimize"
    /\ ~OptDone(opt)
    /\ opt' = OptIter(opt, logits, labels)
    /\ temperature' = opt'.T
    /\ UNCHANGED <<pc, args, loader, batch_limit, logits, labels, logit_src,
                   label_src, before_nll, before_ece, ret, fitted, nfits>>

\* Lines 72-77: the loss after scaling, and the return of the temperature.
FitAfter ==
    /\ pc = "fit_optimize"
    /\ OptDone(opt)
    /\ Return([op |-> "fit", ok |-> TRUE, value |-> temperature,
               info |-> CallInfo,
               logits |-> logits, labels |-> labels,
               before_nll |-> before_nll, before_ece |-> before_ece,
               after_nll |-> NLL(TemperatureScale(logits, temperature),
                                 labels),
               after_ece |-> ECEForward(TemperatureScale(logits, temperature),
                                        labels, DEFAULT_N_BINS).ece,
               aligned |-> logit_src = label_src])
    /\ fitted' = <<temperature>>
    /\ UNCHANGED <<temperature, nfits>>

\* A temperature_scale that divides by the initial temperature.
RescaleInitial ==
    /\ pc = "rescale"
    /\ Return([op |-> "rescale", ok |-> TRUE, logits |-> args.logits,
               value |-> TemperatureScale(args.logits, INIT_TEMPERATURE)])
    /\ UNCHANGED <<temperature, fitted, nfits>>

\* BinaryTemperatureScaling.temperature_scale: line 30.
Rescale ==
    /\ pc = "rescale"
    /\ Return([op |-> "rescale", ok |-> TRUE, logits |-> args.logits,
               value |-> TemperatureScale(args.logits, temperature)])
    /\ UNCHANGED <<temperature, fitted, nfits>>

(***************************************************************************)
(* _ECELoss(n_bins).forward(logits, labels)                                *)
(***************************************************************************)

Compute ==
    /\ pc = "compute"
    /\ Return([op |-> "compute", ok |-> TRUE, n_bins |-> args.n_bins,
               logits |-> args.logits, labels |-> args.labels,
               out |-> ECEForward(args.logits, args.labels, args.n_bins)])
    /\ UNCHANGED <<temperature, fitted, nfits>>

(***************************************************************************)
(* ThresholdMoving                                                         *)
(***************************************************************************)

\* Lines 142-151: the collection loop, then np.concatenate, which raises on
\* an empty list.
SearchCollect ==
    /\ pc = "search_collect"
    /\ LET consumed == ISlice(loader, batch_limit)
           lg == CollectProbs(consumed)
           lb == CollectLabels(consumed)
       IN  IF consumed = <<>>
           THEN Raise("search", "concatenate")
           ELSE /\ logit_src' = Origins(lg)
                /\ label_src' = Origins(lb)
                /\ logits' = Values(lg)
                /\ labels' = Values(lb)
                /\ pc' = "search_scan"
                /\ UNCHANGED <<args, loader, batch_limit, opt, before_nll,
                               before_ece, ret>>
    /\ UNCHANGED <<temperature, fitted, nfits>>

\* Lines 154-162: the scores over the grid and the first best threshold.
SearchScan ==
    /\ pc = "search_scan"
    /\ IF args.strict /\ Len(logits) # Len(labels)
       THEN Raise("search", "max_metric")
       ELSE Return([op |-> "search", ok |-> TRUE,
                    value |-> Thresholds[ArgMax(Scores(args.max_metric,
                                                       logits))],
                    info |-> CallInfo,
                    max_metric |-> args.max_metric, probs |-> logits,
                    labels |-> labels, aligned |-> logit_src = label_src])
    /\ UNCHANGED <<temperature, fitted, nfits>>

\* ThresholdMoving.to_labels: line 166.
ToLabels ==
    /\ pc = "to_labels"
    /\ Return([op |-> "to_labels", ok |-> TRUE, pos_probs |-> args.pos_probs,
               threshold |-> args.threshold,
               value |-> ToLabelsOf(args.pos_probs, args.threshold)])
    /\ UNCHANGED <<temperature, fitted, nfits>>

(***************************************************************************)
(* The specifications.                                                     *)
(***************************************************************************)

\* The caller starts a call between calls; it sees what the last returned.
Call ==
    /\ pc = "idle"
    /\ \/ nfits < MaxFits /\ nfits' = nfits + 1 /\ CallFit(Sources(Inputs))
       \/ UNCHANGED nfits /\ CallSearch(Sources(Inputs))
       \/ UNCHANGED nfits
          /\ CallRescale({Forward(v) : v \in Inputs \cup {-1}}, 2)
       \/ UNCHANGED nfits
          /\ CallCompute({DEFAULT_N_BINS}, {Forward(v) : v \in Inputs}, {1})
       \/ UNCHANGED nfits /\ CallToLabels({ONE \div 2, ONE}, {1})
    /\ ret' = [op |-> None]
    /\ UNCHANGED <<temperature, logits, labels, logit_src, label_src, opt,
                   before_nll, before_ece, fitted>>

\* Any sequence of calls on the calibrator and the threshold search.
Next ==
    \/ Call
    \/ FitCollect
    \/ FitBefore
    \/ FitStep
    \/ FitOptIter
    \/ FitAfter
    \/ Rescale
    \/ Compute
    \/ SearchCollect
    \/ SearchScan
    \/ ToLabels

Spec == Init /\ [][Next]_vars

\* The most bins of an _ECELoss that is called directly.
MaxBins == 2

\* The most elements of the logits of a direct call, and of the
\* probabilities of a direct to_labels call.
MaxLen == 4

\* The logits of a direct call: sigmoid gives 0.0 at -200 and 1.0 at 200.
ECELogits == {Forward(v) : v \in {-200, -2, 0, 2, 200}}

\* One direct call of _ECELoss(n_bins).forward, with any arguments.
InitECE ==
    /\ Fresh
    /\ pc = "compute"
    /\ \E n \in 1..MaxBins : \E len \in 1..MaxLen :
         \E xs \in [1..len -> ECELogits] : \E ys \in [1..len -> Labels] :
           args = [n_bins |-> n, logits |-> xs, labels |-> ys]

NextECE == Compute

SpecECE == InitECE /\ [][NextECE]_vars

\* The inputs the data sources of a single search draw from.
SearchInputs == {-2, 0, 2}

\* One call of search_threshold with any metric function, or one call of
\* to_labels, on a new calibrator.
InitSearch ==
    /\ temperature = INIT_TEMPERATURE
    /\ logits = <<>>
    /\ labels = <<>>
    /\ logit_src = <<>>
    /\ label_src = <<>>
    /\ opt = None
    /\ before_nll = 0
    /\ before_ece = 0
    /\ ret = [op |-> None]
    /\ fitted = <<>>
    /\ nfits = 0
    /\ \/ /\ pc = "search_collect"
          /\ \E src \in Sources(SearchInputs) : \E order \in Orders(Len(src)) :
               \E f \in Fractions :
                 LET consumed ==
                         ISlice(Shuffled(src, order), BatchLimit(Len(src), f))
                     ys == Values(CollectLabels(consumed))
                     n  == Total(consumed, "inputs")
                 IN  /\ loader = Shuffled(src, order)
                     /\ batch_limit = BatchLimit(Len(src), f)
                     /\ \E metric \in AllMetrics(ys, n) :
                          \E strict \in IF Len(ys) = n THEN {FALSE}
                                       ELSE BOOLEAN :
                            args = [val_fraction |-> f, max_metric |-> metric,
                                    strict |-> strict]
       \/ /\ pc = "to_labels"
          /\ loader = <<>>
          /\ batch_limit = 0
          /\ \E len \in 1..MaxLen : \E ps \in [1..len -> Probs] :
               \E t \in Probs : args = [pos_probs |-> ps, threshold |-> t]

NextSearch ==
    \/ SearchCollect
    \/ SearchScan
    \/ ToLabels

SpecSearch == InitSearch /\ [][NextSearch]_vars

(***************************************************************************)
(* The properties of the specification.                                    *)
(***************************************************************************)

\* The sum of f over the set S.
RECURSIVE SumOver(_, _)
SumOver(S, f) ==
    IF S = {} THEN 0
    ELSE LET x == CHOOSE x \in S : TRUE IN f[x] + SumOver(S \ {x}, f)

\* C1: search_threshold returns a member of the grid 0.000, 0.001, ...,
\* 0.999 whose score is the largest over the grid; every smaller grid
\* threshold scores strictly less (the smallest of the best is returned);
\* for a constant metric function the result is 0.000.
C1_SearchReturnsFirstBest ==
    (ret.op = "search" /\ ret.ok) =>
        LET sc == Scores(ret.max_metric, ret.probs)
            k  == ret.value \div GRID_STEP + 1
            constant == \A p, q \in DOMAIN ret.max_metric :
                            ret.max_metric[p] = ret.max_metric[q]
        IN  /\ k \in 1..GRID_SIZE
            /\ ret.value = (k - 1) * GRID_STEP
            /\ \A j \in 1..GRID_SIZE : sc[j] <= sc[k]
            /\ \A j \in 1..(k - 1) : sc[j] < sc[k]
            /\ constant => ret.value = 0

\* A search whose best score is first reached above 0.000 and is reached
\* again by the last threshold of the grid.
C1_Witness ==
    /\ ret.op = "search"
    /\ ret.ok
    /\ ret.value > 0
    /\ LET sc == Scores(ret.max_metric, ret.probs)
       IN  sc[GRID_SIZE] = sc[ret.value \div GRID_STEP + 1]

\* The temperatures tried for a lower calibration error than at T = 1.
TStar == {ONE \div 2, 2 * ONE}

\* C2: when some temperature gives the validation logits a lower
\* calibration error than T = 1, the NLL after the fit (on logits / T) is
\* not above the NLL before it (on the unscaled logits).
C2_FitDoesNotRaiseNLL ==
    (/\ ret.op = "fit"
     /\ ret.ok
     /\ \E T \in TStar :
          ECEForward(TemperatureScale(ret.logits, T), ret.labels,
                     DEFAULT_N_BINS).ece
            < ECEForward(ret.logits, ret.labels, DEFAULT_N_BINS).ece)
        => ret.after_nll <= ret.before_nll

\* floor(len(source) * val_fraction) of a returned or raised call.
Selected(info) == (info.len * info.val_fraction[1]) \div info.val_fraction[2]

\* C3: when floor(len(source) * val_fraction) is zero, calibrate and
\* search_threshold end in an error and return no value.
C3_NoBatchesRaises ==
    (ret.op \in {"fit", "search"} /\ Selected(ret.info) = 0) =>
        /\ ~ret.ok
        /\ "value" \notin DOMAIN ret

\* A calibrate call on a source of one batch with a val_fraction that
\* selects none of it, ended in the error of torch.cat.
C3_Witness ==
    /\ ret.op = "fit"
    /\ ret.info.len = 1
    /\ Selected(ret.info) = 0
    /\ ~ret.ok
    /\ ret.at = "cat"

\* Within 0.001.
About(a, b) == Abs(a - b) <= ONE \div 1000

\* C4: for logits [2, 2, -2, -2], labels [1, 1, 0, 0] and n_bins = 2 the
\* result is about 0.119, the bin (0, 0.5] and the bin (0.5, 1] each
\* contributing about 0.0595.
C4_Scenario ==
    (/\ ret.op = "compute"
     /\ ret.n_bins = 2
     /\ ret.logits = <<Forward(2), Forward(2), Forward(-2), Forward(-2)>>
     /\ ret.labels = <<1, 1, 0, 0>>) =>
        LET out == ret.out
            gap(b) == BinGap(out.confidences, out.accuracies, out.in_bin[b])
        IN  /\ About(out.ece, 119000)
            /\ About(gap(1), 59500)
            /\ About(gap(2), 59500)

\* C5: the result of _ECELoss.forward lies in [0, 1]; it is the sum over
\* the non-empty bins of |avg_confidence_in_bin - accuracy_in_bin| times
\* the share of the elements that are in the bin.
C5_ECEInUnitInterval ==
    ret.op = "compute" =>
        LET out == ret.out
            N == Len(ret.logits)
            NonEmpty == {b \in 1..ret.n_bins : out.in_bin[b] # {}}
            contribution ==
                [b \in NonEmpty |->
                    LET cnt == Cardinality(out.in_bin[b])
                        avg == SumOver(out.in_bin[b], out.confidences)
                                   \div cnt
                        acc == (SumOver(out.in_bin[b], out.accuracies) * ONE)
                                   \div cnt
                    IN  MulFix(Abs(avg - acc), (cnt * ONE) \div N)]
        IN  /\ 0 <= out.ece
            /\ out.ece <= ONE
            /\ out.ece = SumOver(NonEmpty, contribution)

\* A call with two non-empty bins that both contribute, and a result
\* above one half.
C5_Witness ==
    /\ ret.op = "compute"
    /\ ret.n_bins = 2
    /\ ret.out.in_bin[1] # {}
    /\ ret.out.in_bin[2] # {}
    /\ ret.out.ece > ONE \div 2
    /\ ret.out.ece < ONE

\* C6: when the collected logits and labels differ in count, calibrate and
\* search_threshold end in an error, and neither returns a value computed
\* from logits and labels that are not aligned.
C6_MismatchFails ==
    ret.op \in {"fit", "search"} =>
        /\ ret.info.n_logits # ret.info.n_labels => ~ret.ok
        /\ ret.ok => ret.aligned

\* C7: to_labels returns a sequence as long as pos_probs whose i-th element
\* is 1 when pos_probs[i] >= threshold, equality included, and 0 otherwise;
\* to_labels([0.1, 0.4, 0.6, 0.9], 0.5) is [0, 0, 1, 1].
C7_ToLabels ==
    ret.op = "to_labels" =>
        /\ Len(ret.value) = Len(ret.pos_probs)
        /\ \A i \in 1..Len(ret.pos_probs) :
             /\ ret.value[i] \in {0, 1}
             /\ ret.value[i] = 1 <=> ret.pos_probs[i] >= ret.threshold
        /\ (/\ ret.pos_probs = <<100000, 400000, 600000, 900000>>
            /\ ret.threshold = 500000) => ret.value = <<0, 0, 1, 1>>

\* A call whose probabilities hold one equal to the threshold, one below
\* it and one above it.
C7_Witness ==
    /\ ret.op = "to_labels"
    /\ \E i, j, k \in 1..Len(ret.pos_probs) :
         /\ ret.pos_probs[i] = ret.threshold /\ ret.value[i] = 1
         /\ ret.pos_probs[j] < ret.threshold /\ ret.value[j] = 0
         /\ ret.pos_probs[k] > ret.threshold /\ ret.value[k] = 1

\* C8: after the collection loop of calibrate and of search_threshold, the
\* collected elements come from exactly the first
\* floor(len(source) * val_fraction) batches of the loader, in the order of
\* the loader and of each batch; every logit is the model's output for the
\* input at its origin and every label the label at its origin; when each
\* consumed batch has as many labels as inputs, logits[i] and labels[i]
\* have the same origin for every i.
C8_PrefixInOrder ==
    pc \in {"fit_before", "search_scan"} =>
        LET f == args.val_fraction
            k == (Len(loader) * f[1]) \div f[2]
            Pos(b) == CHOOSE j \in 1..Len(loader) : loader[j].id = b
            Before(p, q) ==
                Pos(p.b) < Pos(q.b) \/ (p.b = q.b /\ p.i < q.i)
            InOrder(src) ==
                \A i, j \in 1..Len(src) : i < j => Before(src[i], src[j])
            First(field) ==
                UNION {{[b |-> loader[j].id, i |-> i] :
                           i \in 1..Len(loader[j][field])} : j \in 1..k}
            Produced(input) ==
                IF pc = "fit_before" THEN Forward(input)
                ELSE Sigmoid(DivFix(Forward(input), temperature))
        IN  /\ k \in 1..Len(loader)
            /\ {logit_src[i] : i \in 1..Len(logit_src)} = First("inputs")
            /\ {label_src[i] : i \in 1..Len(label_src)} = First("labels")
            /\ InOrder(logit_src)
            /\ InOrder(label_src)
            /\ Len(logits) = Len(logit_src)
            /\ Len(labels) = Len(label_src)
            /\ \A i \in 1..Len(logits) :
                 logits[i] = Produced(loader[Pos(logit_src[i].b)]
                                          .inputs[logit_src[i].i])
            /\ \A i \in 1..Len(labels) :
                 labels[i] = loader[Pos(label_src[i].b)]
                                 .labels[label_src[i].i]
            /\ (\A j \in 1..k :
                  Len(loader[j].inputs) = Len(loader[j].labels)) =>
                   /\ Len(logits) = Len(labels)
                   /\ \A i \in 1..Len(logits) : logit_src[i] = label_src[i]

\* A search that consumed one of two batches, the loader yielding the
\* second batch of the source first.
C8_Witness ==
    /\ pc = "search_scan"
    /\ Len(loader) = 2
    /\ batch_limit = 1
    /\ loader[1].id = 2
    /\ Len(logits) = 1
    /\ logit_src = label_src

\* C9: in_bin of bin b of n holds the elements whose confidence is above
\* (b - 1) / n and at most b / n; a confidence above 0 is in exactly one
\* bin, one equal to the boundary b / n of two bins is in the lower bin b
\* only, and one equal to 0 is in no bin, so that its accuracy adds nothing
\* to the result.
C9_BinMembership ==
    ret.op = "compute" =>
        LET out == ret.out
            n == ret.n_bins
            N == Len(ret.logits)
            c == out.confidences
            BinsOf(i) == {b \in 1..n : i \in out.in_bin[b]}
            flipped == [i \in 1..N |->
                          IF c[i] = 0 THEN 1 - ret.labels[i]
                          ELSE ret.labels[i]]
        IN  /\ \A i \in 1..N : \A b \in 1..n :
                 i \in out.in_bin[b] <=>
                     ((b - 1) * ONE < c[i] * n /\ c[i] * n <= b * ONE)
            /\ \A i \in 1..N : c[i] > 0 => Cardinality(BinsOf(i)) = 1
            /\ \A i \in 1..N : \A b \in 1..(n - 1) :
                 c[i] * n = b * ONE => BinsOf(i) = {b}
            /\ \A i \in 1..N : c[i] = 0 => BinsOf(i) = {}
            /\ ECEOver(c, flipped, n).ece = out.ece

\* A call with two bins, a confidence of 0, one of 0.5 (the boundary of
\* the two bins) and one of 1.
C9_Witness ==
    /\ ret.op = "compute"
    /\ ret.n_bins = 2
    /\ \E i, j, k \in 1..Len(ret.logits) :
         /\ ret.out.confidences[i] = 0
         /\ ret.out.confidences[j] = ONE \div 2
         /\ j \in ret.out.in_bin[1]
         /\ ret.out.confidences[k] = ONE
    /\ ret.out.ece > 0

\* The temperature the latest completed fit returned, the initial one
\* before any.
LastFitted == IF fitted = <<>> THEN INIT_TEMPERATURE ELSE fitted[1]

\* C10: the temperature is 1.5 before any fit; outside the optimization of
\* a running fit it is the value the latest completed fit returned (no
\* other call changes it); temperature_scale divides by that value.
C10_TemperatureOwnedByFit ==
    /\ nfits = 0 => temperature = INIT_TEMPERATURE
    /\ pc # "fit_optimize" => temperature = LastFitted
    /\ ret.op = "rescale" =>
           ret.value = [i \in 1..Len(ret.logits) |->
                           DivFix(ret.logits[i], LastFitted)]

\* A temperature_scale call after a fit that moved the temperature.
C10_Witness ==
    /\ ret.op = "rescale"
    /\ fitted # <<>>
    /\ LastFitted # INIT_TEMPERATURE
    /\ temperature = LastFitted

=============================================================================
